---- MODULE Spec2Model ----
(***************************************************************************)
(* netbox-powerdns-sync: the two sync jobs of jobs.py as a state machine.  *)
(*                                                                         *)
(*   PowerdnsTaskFullSync.run_full_sync   full-zone sync (diff and apply,  *)
(*                                        self re-arming)                  *)
(*   PowerdnsTaskIP.run_update_ip         single-address sync              *)
(*                                                                         *)
(* Representation.  A DNS name is the sequence of its labels; the root     *)
(* name and the empty string are both <<>> (trailing dots are not          *)
(* represented).  None is Python's None.  A Zone object is named by its    *)
(* identifier ("zf", "zr"), an address by "a1", "a2", an API server by     *)
(* "s1", "s2".  A DnsRecord is the record [name, type, data, ttl,          *)
(* zone_name].  The PowerDNS API is the interface the jobs call:           *)
(* get_zone, records, create_records, delete_records, at the granularity   *)
(* of one DnsRecord.                                                       *)
(***************************************************************************)
EXTENDS Integers, Sequences, FiniteSets, TLC

VARIABLES
    zoneEnabled,  \* Zone.enabled, per zone
    srvEnabled,   \* ApiServer.enabled, per server
    srvZones,     \* the zones each server's API knows (get_zone returns one)
    srvRecs,      \* the records each server holds, per zone
    ipam,         \* the address inventory (IPAddress objects)
    edits,        \* number of inventory changes made by anybody but the jobs
    job,          \* the core Job of the current full-zone sync run
    fs,           \* the PowerdnsTaskFullSync task of the current run
    fsCalls,      \* the API calls the current full-zone run has issued, in order
    queue,        \* jobs enqueued by Job.enqueue and not yet started
    runNo,        \* index of the current run in its chain of re-armed runs
    prev,         \* how the previous run of the chain ended
    ipjob,        \* the core Job of the single-address sync run
    ipt,          \* the PowerdnsTaskIP task
    ipCalls,      \* the API calls the single-address run has issued, in order
    apiCall,      \* one create_record / delete_record / load_pdns_records call
    zoneTab,      \* the rows of the Zone table and the last operation on it
    rdns          \* a zone name and the network get_addresses derives from it

vars == <<zoneEnabled, srvEnabled, srvZones, srvRecs, ipam, edits, job, fs,
          fsCalls, queue, runNo, prev, ipjob, ipt, ipCalls, apiCall, zoneTab, rdns>>

cfgVars == <<zoneEnabled, srvEnabled, srvZones>>
fsVars == <<job, fs, fsCalls, queue, runNo, prev>>
ipVars == <<ipjob, ipt, ipCalls>>
auxVars == <<apiCall, zoneTab, rdns>>

-----------------------------------------------------------------------------
(* Bounds of the model.                                                    *)

MaxRuns == 3     \* runs of one chain of re-armed full-zone syncs
MaxDelay == 1    \* how long after its scheduled time a run may end
MaxEdits == 1    \* inventory changes made by anybody but the jobs

-----------------------------------------------------------------------------
(* The universe: zones, servers, addresses.                                *)

None == "None"

Zones == {"zf", "zr"}
Servers == {"s1", "s2"}
Addrs == {"a1", "a2"}

\* Zone.name: a forward zone "ex." and the reverse zone "10.in-addr.arpa."
ZoneName(z) ==
    CASE z = "zf" -> <<"ex">>
      [] z = "zr" -> <<"10", "in-addr", "arpa">>

\* Zone.default_ttl
DefaultTtl(z) ==
    CASE z = "zf" -> 3
      [] z = "zr" -> 6

\* Zone.match_ipaddress_tags
ZoneMatchTags(z) ==
    CASE z = "zf" -> {"tf"}
      [] z = "zr" -> {"tr"}

\* Meta.ordering = ("name",): "10.in-addr.arpa." sorts before "ex."
ZoneOrder == <<"zr", "zf">>

\* Meta.ordering = ("name",) of ApiServer
ServerOrder == <<"s1", "s2">>

\* ip.address.ip: 10.0.0.1 lies in the reverse zone, 192.0.2.2 in none
Octets(a) ==
    IF a = "a1" THEN <<"10", "0", "0", "1">> ELSE <<"192", "0", "2", "2">>

\* ip.family
Family(a) == 4

\* constants.FAMILY_TYPES and constants.PTR_TYPE
FamilyType(f) == IF f = 4 THEN "A" ELSE "AAAA"
PTR_TYPE == "PTR"
CheckedTypes == {PTR_TYPE, FamilyType(4), FamilyType(6)}

-----------------------------------------------------------------------------
(* Names.                                                                  *)

Reverse(s) == [i \in 1..Len(s) |-> s[Len(s) + 1 - i]]

IsSuffix(z, s) ==
    /\ Len(z) <= Len(s)
    /\ SubSeq(s, Len(s) - Len(z) + 1, Len(s)) = z

\* str.replace(old, ""): every non-overlapping occurrence of old, left to right
RECURSIVE Replace(_, _)
Replace(s, old) ==
    IF Len(old) = 0 \/ Len(s) < Len(old) THEN s
    ELSE IF SubSeq(s, 1, Len(old)) = old
         THEN Replace(SubSeq(s, Len(old) + 1, Len(s)), old)
         ELSE <<Head(s)>> \o Replace(Tail(s), old)

\* <fqdn>.replace(zone.name, "").rstrip("."): the name relative to the zone
RelName(fqdn, zname) == Replace(fqdn, zname)

\* Zone.is_reverse, derived from the name's suffix
IsReverse(z) ==
    \/ IsSuffix(<<"in-addr", "arpa">>, ZoneName(z))
    \/ IsSuffix(<<"ip6", "arpa">>, ZoneName(z))

\* Zone.get_best_zone: the enabled zone with the longest name that is a
\* suffix of the candidate name
GetBestZone(name) ==
    LET cand == {z \in Zones : zoneEnabled[z] /\ IsSuffix(ZoneName(z), name)}
    IN  IF cand = {} THEN None
        ELSE CHOOSE z \in cand :
                \A y \in cand : Len(ZoneName(y)) <= Len(ZoneName(z))

\* Zone.match_ip(ip).first(): the first zone, in name order, whose match
\* tags meet the address's tags
MatchIpFirst(ip) ==
    LET hit == {i \in 1..Len(ZoneOrder) :
                    ZoneMatchTags(ZoneOrder[i]) \cap ip.tags # {}}
    IN  IF hit = {} THEN None
        ELSE ZoneOrder[CHOOSE i \in hit : \A j \in hit : i <= j]

\* utils.get_custom_domain: no custom domain is configured ("" for None)
GetCustomDomain(ip) == <<>>

\* utils.get_default_rdns: the configured default reverse target
GetDefaultRdns == <<"unknown", "invalid">>

\* utils.get_ip_ttl: the address's TTL override, 0 for None
GetIpTtl(ip) == ip.ttl

\* naming.generate_fqdn: the host's name joined with zone.name; "" if there
\* is no zone or no name to derive (the address is its host's primary one)
GenerateFqdn(ip, zone) ==
    IF zone = None \/ ip.host = <<>> THEN <<>>
    ELSE ip.host \o ZoneName(zone)

\* f"{fqdn or ''}{custom_domain or ''}."
PtrData(fqdn, custom) == fqdn \o custom

\* utils.set_dns_name: store the name on the address
SetDnsName(inv, a, name) == [inv EXCEPT ![a].dns_name = name]

\* PowerdnsTask.make_reverse_domain
MakeReverseDomain(a) == Reverse(Octets(a)) \o <<"in-addr", "arpa">>

\* record.DnsRecord
DnsRecord(name, type, data, ttl, zone_name) ==
    [name |-> name, type |-> type, data |-> data, ttl |-> ttl,
     zone_name |-> zone_name]

\* the zone object of a zone name (Zone.objects.get(name=...))
ZoneByName(zname) == CHOOSE z \in Zones : ZoneName(z) = zname

-----------------------------------------------------------------------------
(* PowerdnsTask: per-address attributes and forward-zone resolution.       *)

\* a loop that would carry the attributes over to the next address
KeepAttrs(attrs) == attrs

InitAttrs(attrs) ==
    [fqdn |-> <<>>, forward_zone |-> None, reverse_zone |-> None,
     make_fqdn_ran |-> FALSE]

NoAttrs ==
    [fqdn |-> <<>>, forward_zone |-> None, reverse_zone |-> None,
     make_fqdn_ran |-> FALSE]

\* determine_forward_zone: the name the zone is looked up by
NameOf(ip) == IF ip.dns_name # <<>> THEN ip.dns_name ELSE ip.host

\* if name: self.forward_zone = Zone.get_best_zone(name)
ZoneFromName(name, forward_zone) ==
    IF name # <<>> THEN GetBestZone(name) ELSE forward_zone

\* if not self.forward_zone: self.forward_zone = Zone.match_ip(self.ip).first()
ZoneFromMatch(ip, forward_zone) ==
    IF forward_zone = None THEN MatchIpFirst(ip) ELSE forward_zone

\* if not self.forward_zone: self.forward_zone = get_custom_domain(self.ip)
ZoneFromCustom(ip, forward_zone) ==
    IF forward_zone # None THEN forward_zone
    ELSE IF GetCustomDomain(ip) = <<>> THEN None ELSE "str"

DetermineForwardZone(ip, attrs) ==
    ZoneFromCustom(ip, ZoneFromMatch(ip, ZoneFromName(NameOf(ip), attrs.forward_zone)))

\* make_fqdn once determine_forward_zone returned fz
WithForwardZone(ip, attrs, fz) ==
    [attrs EXCEPT !.make_fqdn_ran = TRUE,
                  !.forward_zone = fz,
                  !.fqdn = IF fz # None THEN GenerateFqdn(ip, fz) ELSE attrs.fqdn]

MakeFqdn(ip, attrs) ==
    IF attrs.make_fqdn_ran THEN attrs
    ELSE WithForwardZone(ip, attrs, DetermineForwardZone(ip, attrs))

\* a lookup that would return the zone's servers whether enabled or not
GetAllServersForZone(zname) ==
    IF zname = <<>> THEN <<>> ELSE ServerOrder

\* zone.api_servers.enabled().all(), in the servers' name order
GetPdnsServersForZone(zname) ==
    IF zname = <<>> THEN <<>>
    ELSE SelectSeq(ServerOrder, LAMBDA s : srvEnabled[s])

-----------------------------------------------------------------------------
(* PowerdnsTask.create_record / delete_record.                             *)

NoRecord == DnsRecord(<<>>, "-", <<>>, 0, <<>>)

Call(api, server, zname, rr) ==
    [api |-> api, server |-> server, zone |-> zname, rr |-> rr]

\* the row add_to_output appends to job.data["output"]
OutputRow(action, rr, zname, server) ==
    [action |-> action, rr |-> rr, zone |-> zname, server |-> server]

\* an output list that would keep the latest row only
AddToOutputLatestOnly(output, row) == <<row>>

AddToOutput(output, row) == Append(output, row)

\* what the API may do during one loop over the servers: NoFail, or raise in
\* the records / create_records / delete_records call on the at-th server
NoFail == [at |-> 0, mode |-> "none"]
Fails(n) == {NoFail} \cup {[at |-> k, mode |-> "apply"] : k \in 1..n}

\* zone.create_records / zone.delete_records on one server
ApiApply(op, recs, s, z, rr) ==
    IF op = "CREATE" THEN [recs EXCEPT ![s][z] = @ \cup {rr}]
    ELSE [recs EXCEPT ![s][z] = @ \ {rr}]

\* a loop that would pass over a server that lacks the zone and go on
RECURSIVE ApplyLoopSkipMissing(_, _, _, _, _, _)
ApplyLoopSkipMissing(op, rr, servers, i, fail, st) ==
    IF i > Len(servers) THEN st
    ELSE IF ZoneByName(rr.zone_name) \notin srvZones[servers[i]]
      THEN ApplyLoopSkipMissing(op, rr, servers, i + 1, fail,
              [st EXCEPT !.calls = Append(@, Call("get_zone", servers[i],
                                                  rr.zone_name, NoRecord))])
    ELSE IF fail.at = i
      THEN [st EXCEPT !.exc = "ApiError"]
    ELSE ApplyLoopSkipMissing(op, rr, servers, i + 1, fail,
            [st EXCEPT !.calls = Append(@, Call("create_records", servers[i],
                                                rr.zone_name, rr))])

\* the loop over the servers, from the i-th on; st = [recs, output, calls, exc]
RECURSIVE ApplyLoop(_, _, _, _, _, _)
ApplyLoop(op, rr, servers, i, fail, st) ==
    IF i > Len(servers) THEN st
    ELSE
      LET s == servers[i]
          z == ZoneByName(rr.zone_name)
          api == IF op = "CREATE" THEN "create_records" ELSE "delete_records"
          st1 == [st EXCEPT !.calls = Append(@, Call("get_zone", s, rr.zone_name, NoRecord))]
          st2 == [st1 EXCEPT
                    !.output = AddToOutput(@, OutputRow(op, rr, rr.zone_name, s)),
                    !.calls = Append(@, Call(api, s, rr.zone_name, rr))]
      IN  IF z \notin srvZones[s]
            THEN [st1 EXCEPT !.exc = "ServerZoneMissing"]
          ELSE IF fail.at = i /\ fail.mode = "apply"
            THEN [st2 EXCEPT !.exc = "ApiError"]
          ELSE ApplyLoop(op, rr, servers, i + 1, fail,
                         [st2 EXCEPT !.recs = ApiApply(op, @, s, z, rr)])

ApplyRecord(op, rr, fail, recs, output, calls) ==
    LET servers == GetPdnsServersForZone(rr.zone_name)
        st == [recs |-> recs, output |-> output, calls |-> calls, exc |-> None]
    IN  IF Len(servers) = 0 THEN [st EXCEPT !.exc = "NoServers"]
        ELSE ApplyLoop(op, rr, servers, 1, fail, st)

CreateRecord(rr, fail, recs, output, calls) ==
    ApplyRecord("CREATE", rr, fail, recs, output, calls)

DeleteRecord(rr, fail, recs, output, calls) ==
    ApplyRecord("DELETE", rr, fail, recs, output, calls)

-----------------------------------------------------------------------------
(* PowerdnsTaskFullSync: candidate selection, desired set, actual set.     *)

\* network_cidr = None
NoNetwork == [family |-> 0, prefix |-> <<>>, len |-> 0]

\* the labels netaddr reads as a decimal octet
DecimalOctets == {"0", "1", "2", "10", "72", "192"}

\* the characters netaddr reads as a hexadecimal digit
HexDigits == {"0", "1", "2", "3", "4", "5", "6", "7", "8", "9",
              "a", "b", "c", "d", "e", "f"}

\* the characters of a label
Chars(l) ==
    CASE l = "10" -> <<"1", "0">>
      [] l = "72" -> <<"7", "2">>
      [] l = "192" -> <<"1", "9", "2">>
      [] OTHER -> <<l>>

\* "".join(reversed_nibbles)
RECURSIVE JoinChars(_)
JoinChars(labels) ==
    IF Len(labels) = 0 THEN <<>>
    ELSE Chars(Head(labels)) \o JoinChars(Tail(labels))

\* [ipv6_nibbles[i : i + 4] for i in range(0, len(ipv6_nibbles), 4)]
RECURSIVE GroupsOf4(_)
GroupsOf4(chars) ==
    IF Len(chars) = 0 THEN <<>>
    ELSE IF Len(chars) <= 4 THEN <<chars>>
    ELSE <<SubSeq(chars, 1, 4)>> \o GroupsOf4(SubSeq(chars, 5, Len(chars)))

\* a group of one to four hexadecimal digits is a 16-bit number: four
\* nibbles, the digits written at the right
GroupNibbles(g) == [i \in 1..(4 - Len(g)) |-> "0"] \o g

RECURSIVE AddressNibbles(_)
AddressNibbles(groups) ==
    IF Len(groups) = 0 THEN <<>>
    ELSE GroupNibbles(Head(groups)) \o AddressNibbles(Tail(groups))

\* an IPv4 network read with its octets in the order of the zone's name
Ipv4NetworkAsNamed(octets, length) ==
    [cidr |-> [family |-> 4, prefix |-> Reverse(octets), len |-> length],
     exc |-> None]

\* IPNetwork(f"{base_ip}/{length}") of an IPv4 base address: the octets
\* the length covers; AddrFormatError if a label is no octet
Ipv4Network(octets, length) ==
    IF \A i \in 1..Len(octets) : octets[i] \in DecimalOctets
    THEN [cidr |-> [family |-> 4, prefix |-> octets, len |-> length],
          exc |-> None]
    ELSE [cidr |-> NoNetwork, exc |-> "AddrFormatError"]

\* IPNetwork(f"{ipv6_address}::/{network_length}") inside try / except:
\* the groups, then "::" standing for at least one group of zeros, cut at
\* the prefix length; None if the text is no IPv6 network
Ipv6Network(chars, groups, network_length) ==
    IF /\ \A i \in 1..Len(chars) : chars[i] \in HexDigits
       /\ Len(groups) >= 1
       /\ Len(groups) <= 7
       /\ network_length <= 128
    THEN [cidr |-> [family |-> 6,
                    prefix |-> SubSeq(AddressNibbles(groups)
                                         \o [i \in 1..32 |-> "0"],
                                      1, network_length \div 4),
                    len |-> network_length],
          exc |-> None]
    ELSE [cidr |-> NoNetwork, exc |-> None]

Ipv6NetworkOfChars(chars, network_length) ==
    Ipv6Network(chars, GroupsOf4(chars), network_length)

\* the network a zone's name implies, from parts = zone_domain.split(".")
NetworkCidrOf(parts) ==
    IF \/ /\ Len(parts) >= 3
          /\ parts[Len(parts) - 1] = "in-addr"
          /\ parts[Len(parts)] = "arpa"
       \/ /\ Len(parts) > 3
          /\ parts[Len(parts)] = "ip6"
    THEN IF /\ Len(parts) >= 3
            /\ parts[Len(parts) - 1] = "in-addr"
            /\ parts[Len(parts)] = "arpa"
         THEN IF Len(parts) = 5
                THEN Ipv4Network(<<parts[3], parts[2], parts[1]>>, 24)
              ELSE IF Len(parts) = 4
                THEN Ipv4Network(<<parts[2], parts[1]>>, 16)
              ELSE IF Len(parts) = 3
                THEN Ipv4Network(<<parts[1]>>, 8)
              ELSE [cidr |-> NoNetwork, exc |-> None]
         ELSE [cidr |-> NoNetwork, exc |-> None]
    ELSE IF /\ Len(parts) > 3
            /\ parts[Len(parts) - 1] = "ip6"
            /\ parts[Len(parts)] = "arpa"
         THEN Ipv6NetworkOfChars(
                  JoinChars(Reverse(SubSeq(parts, 1, Len(parts) - 2))),
                  (Len(parts) - 2) * 4)
    ELSE [cidr |-> NoNetwork, exc |-> None]

\* network_cidr of the zone being synchronised
NetworkCidr(z) == NetworkCidrOf(ZoneName(z)).cidr

\* address__net_host_contained
NetHostContained(a, net) ==
    /\ Family(a) = net.family
    /\ SubSeq(Octets(a), 1, Len(net.prefix)) = net.prefix

GetAddresses(zone, inv) ==
    LET zn == ZoneName(zone)
        net == NetworkCidr(zone)
    IN  {a \in Addrs :
            \/ inv[a].dns_name # <<>> /\ IsSuffix(zn, inv[a].dns_name)
            \/ inv[a].host # <<>> /\ IsSuffix(zn, inv[a].host)
            \/ net # NoNetwork /\ NetHostContained(a, net)
            \/ inv[a].tags \cap ZoneMatchTags(zone) # {}}

\* the forward record of an address whatever its forward zone
ForwardRecordsOfAnyZone(zone, a, ip, attrs) ==
    IF attrs.forward_zone # None
    THEN {DnsRecord(RelName(attrs.fqdn, ZoneName(attrs.forward_zone)),
                    FamilyType(Family(a)),
                    Octets(a),
                    IF GetIpTtl(ip) # 0 THEN GetIpTtl(ip)
                    ELSE DefaultTtl(attrs.forward_zone),
                    ZoneName(attrs.forward_zone))}
    ELSE {}

\* load_netbox_records: the forward record of an address, if its forward
\* zone is the zone being synchronised
ForwardRecords(zone, a, ip, attrs) ==
    IF attrs.forward_zone # None /\ attrs.forward_zone = zone
    THEN {DnsRecord(RelName(attrs.fqdn, ZoneName(attrs.forward_zone)),
                    FamilyType(Family(a)),
                    Octets(a),
                    IF GetIpTtl(ip) # 0 THEN GetIpTtl(ip)
                    ELSE DefaultTtl(attrs.forward_zone),
                    ZoneName(attrs.forward_zone))}
    ELSE {}

\* if fqdn == "": fqdn = get_default_rdns()
FqdnOrDefault(fqdn) == IF fqdn = <<>> THEN GetDefaultRdns ELSE fqdn

\* load_netbox_records: the PTR target of an address in reverse zone rz
PtrTarget(ip, rz) ==
    PtrData(FqdnOrDefault(GenerateFqdn(ip, rz)), GetCustomDomain(ip))

\* load_netbox_records: the PTR record of an address in reverse zone rz
PtrRecord(a, ip, rz) ==
    DnsRecord(RelName(MakeReverseDomain(a), ZoneName(rz)),
              PTR_TYPE,
              PtrTarget(ip, rz),
              IF GetIpTtl(ip) # 0 THEN GetIpTtl(ip) ELSE DefaultTtl(rz),
              ZoneName(rz))

\* a loop body that would store the PTR target on the address even when no
\* reverse zone holds the address
ReverseStepAlwaysStoring(zone, a, inv, attrs, fwd, rz) ==
    IF ~IsReverse(zone)
      THEN [add |-> fwd, inv |-> inv, attrs |-> attrs, wrote |-> {}]
    ELSE IF rz = zone
      THEN [add |-> fwd \cup {PtrRecord(a, inv[a], rz)},
            inv |-> SetDnsName(inv, a, PtrTarget(inv[a], rz)),
            attrs |-> [attrs EXCEPT !.reverse_zone = rz],
            wrote |-> {a}]
    ELSE [add |-> fwd,
          inv |-> SetDnsName(inv, a, PtrTarget(inv[a], rz)),
          attrs |-> [attrs EXCEPT !.reverse_zone = rz], wrote |-> {a}]

\* the loop body of load_netbox_records after make_fqdn, fwd being the
\* forward records added and rz the reverse zone found
ReverseStep(zone, a, inv, attrs, fwd, rz) ==
    IF ~IsReverse(zone)
      THEN [add |-> fwd, inv |-> inv, attrs |-> attrs, wrote |-> {}]
    ELSE IF rz = None
      THEN [add |-> fwd, inv |-> inv, attrs |-> attrs, wrote |-> {}]
    ELSE IF rz = zone
      THEN [add |-> fwd \cup {PtrRecord(a, inv[a], rz)},
            inv |-> SetDnsName(inv, a, PtrTarget(inv[a], rz)),
            attrs |-> [attrs EXCEPT !.reverse_zone = rz],
            wrote |-> {a}]
    ELSE [add |-> fwd, inv |-> inv,
          attrs |-> [attrs EXCEPT !.reverse_zone = rz], wrote |-> {}]

NetboxRecordsFrom(zone, a, inv, attrs) ==
    ReverseStep(zone, a, inv, attrs, ForwardRecords(zone, a, inv[a], attrs),
                GetBestZone(MakeReverseDomain(a)))

\* one pass of the loop body of load_netbox_records, for address a:
\* the records it adds, the inventory after it, the task's attributes after it
NetboxRecordsForIp(zone, a, inv, attrs0) ==
    NetboxRecordsFrom(zone, a, inv, MakeFqdn(inv[a], InitAttrs(attrs0)))

\* the loop of load_netbox_records from the i-th address on; written is the
\* set of addresses set_dns_name was called for
RECURSIVE LoadLoop(_, _, _, _, _, _, _)
LoadNext(zone, order, i, records, written, r) ==
    LoadLoop(zone, order, i + 1, records \cup r.add, r.inv, r.attrs,
             written \cup r.wrote)

LoadLoop(zone, order, i, records, inv, attrs, written) ==
    IF i > Len(order) THEN [records |-> records, inv |-> inv, written |-> written]
    ELSE LoadNext(zone, order, i, records, written,
                  NetboxRecordsForIp(zone, order[i], inv, attrs))

\* the orders in which a queryset may enumerate a set of addresses
Orders(S) ==
    {o \in [1..Cardinality(S) -> S] : \A x \in S : \E i \in 1..Cardinality(S) : o[i] = x}

LoadNetboxRecords(zone, order, inv) ==
    LoadLoop(zone, order, 1, {}, inv, NoAttrs, {})

\* the loop over the servers of load_pdns_records; st = [records, calls, exc]
RECURSIVE PdnsLoop(_, _, _, _, _)
PdnsLoop(zone, servers, i, fail, st) ==
    IF i > Len(servers) THEN st
    ELSE
      LET s == servers[i]
          st1 == [st EXCEPT !.calls = Append(@, Call("get_zone", s, ZoneName(zone), NoRecord))]
          st2 == [st1 EXCEPT !.calls = Append(@, Call("records", s, ZoneName(zone), NoRecord))]
      IN  IF zone \notin srvZones[s]
            THEN [st1 EXCEPT !.exc = "ServerZoneMissing"]
          ELSE IF fail.at = i /\ fail.mode = "apply"
            THEN [st2 EXCEPT !.exc = "ApiError"]
          ELSE PdnsLoop(zone, servers, i + 1, fail,
                  [st2 EXCEPT !.records =
                      @ \cup {r \in srvRecs[s][zone] : r.type \in CheckedTypes}])

LoadPdnsRecords(zone, fail, calls) ==
    LET servers == GetPdnsServersForZone(ZoneName(zone))
        st == [records |-> {}, calls |-> calls, exc |-> None]
    IN  IF Len(servers) = 0 THEN [st EXCEPT !.exc = "NoServers"]
        ELSE PdnsLoop(zone, servers, 1, fail, st)

\* run_full_sync, lines 317-318
\* a diff that would delete every published record
ToDeleteAll(pdns_records, netbox_records) == pdns_records

ToDelete(pdns_records, netbox_records) == pdns_records \ netbox_records
ToCreate(pdns_records, netbox_records) == netbox_records \ pdns_records

-----------------------------------------------------------------------------
(* core.models.Job and the tasks.                                          *)

\* a Job as Job.enqueue creates it; origin is the scheduled time of the
\* first job of its chain
NewJob(object, scheduled, interval, origin) ==
    [object |-> object, scheduled |-> scheduled, interval |-> interval,
     origin |-> origin, status |-> "pending",
     starts |-> 0, terms |-> 0, output |-> <<>>, log |-> <<>>,
     exception |-> None]

\* Job.start()
JobStart(j) == [j EXCEPT !.status = "running", !.starts = @ + 1]

\* Job.terminate(status)
JobTerminate(j, status) == [j EXCEPT !.status = status, !.terms = @ + 1]

\* JobLoggingMixin.log
Log(j, level, msg) == [j EXCEPT !.log = Append(@, <<level, msg>>)]

\* PowerdnsTaskFullSync.__init__; exc is the exception the run caught, exc_calls
\* the number of API calls issued when it was caught, raised what the run raised
NewFullSync(zone) ==
    [pc |-> "idle", zone |-> zone, netbox_records |-> {}, pdns_records |-> {},
     to_delete |-> {}, to_create |-> {}, del_left |-> {}, cre_left |-> {},
     diffed |-> FALSE, enumerated |-> FALSE, written |-> {},
     exc |-> None, exc_calls |-> 0, raised |-> None, edits0 |-> 0]

NoFullSync == [NewFullSync(None) EXCEPT !.pc = "off"]

\* a run that would ignore the enabled flag
ZoneNeverDisabled(zone) == FALSE

\* if not task.zone.enabled
ZoneDisabled(zone) == ~zoneEnabled[zone]

\* loops that would interleave
CreatesMayStartAnytime(task) == TRUE

\* the create loop follows the delete loop
CreatesMayStart(task) == task.del_left = {}

\* except clauses that would log the failure and report success
FullSyncFailedSilently(j, exc) ==
    JobTerminate(Log(j, "failure", exc), "completed")

\* the two except clauses of run_full_sync
FullSyncFailed(j, exc) ==
    JobTerminate(Log(j, "failure", exc), "errored")

\* a cadence that would be computed from the time the run finished
NewScheduledTimeFromNow(j, now) == now + j.interval

\* new_scheduled_time, computed at time now
NewScheduledTime(j, now) == j.scheduled + j.interval

\* the tail of run_full_sync, reached at time now: re-arm
Rearm(j, q, now) ==
    IF j.interval # 0
    THEN Append(q, [instance |-> j.object, schedule_at |-> NewScheduledTime(j, now),
                    interval |-> j.interval])
    ELSE q

-----------------------------------------------------------------------------
(* run_full_sync, step by step.                                            *)

\* task = cls(job); job.start(); the disabled check
FS_Start ==
    /\ fs.pc = "idle"
    /\ LET j1 == JobStart(job)
       IN  IF ZoneDisabled(fs.zone)
           THEN /\ job' = JobTerminate(Log(j1, "warning", "disabled"), "completed")
                /\ fs' = [fs EXCEPT !.pc = "returned", !.edits0 = edits]
           ELSE /\ job' = j1
                /\ fs' = [fs EXCEPT !.pc = "load_netbox", !.edits0 = edits]
    /\ UNCHANGED <<cfgVars, auxVars, srvRecs, ipam, edits, fsCalls, queue, runNo, prev, ipVars>>

\* netbox_records = task.load_netbox_records()
FS_LoadNetbox ==
    /\ fs.pc = "load_netbox"
    /\ \E order \in Orders(GetAddresses(fs.zone, ipam)) :
         \E r \in {LoadNetboxRecords(fs.zone, order, ipam)} :
             /\ fs' = [fs EXCEPT !.pc = "load_pdns", !.netbox_records = r.records,
                                 !.enumerated = TRUE, !.written = r.written]
             /\ ipam' = r.inv
    /\ UNCHANGED <<cfgVars, auxVars, srvRecs, edits, job, fsCalls, queue, runNo, prev, ipVars>>

\* pdns_records = task.load_pdns_records(); the diff
FS_LoadPdns ==
    /\ fs.pc = "load_pdns"
    /\ \E fail \in Fails(Cardinality(Servers)) :
         \E r \in {LoadPdnsRecords(fs.zone, fail, fsCalls)} :
             /\ fsCalls' = r.calls
             /\ IF r.exc # None
                THEN /\ job' = FullSyncFailed(job, r.exc)
                     /\ fs' = [fs EXCEPT !.pc = "rearm", !.exc = r.exc,
                                         !.exc_calls = Len(r.calls)]
                ELSE /\ job' = job
                     /\ fs' = [fs EXCEPT !.pc = "apply", !.pdns_records = r.records,
                                         !.to_delete = ToDelete(r.records, fs.netbox_records),
                                         !.to_create = ToCreate(r.records, fs.netbox_records),
                                         !.del_left = ToDelete(r.records, fs.netbox_records),
                                         !.cre_left = ToCreate(r.records, fs.netbox_records),
                                         !.diffed = TRUE]
    /\ UNCHANGED <<cfgVars, auxVars, srvRecs, ipam, edits, queue, runNo, prev, ipVars>>

\* for record in to_delete: task.delete_record(record)
FS_Delete ==
    /\ fs.pc = "apply"
    /\ fs.del_left # {}
    /\ \E rr \in fs.del_left, fail \in Fails(Cardinality(Servers)) :
         \E r \in {DeleteRecord(rr, fail, srvRecs, job.output, fsCalls)} :
             /\ srvRecs' = r.recs
             /\ fsCalls' = r.calls
             /\ IF r.exc # None
                THEN /\ job' = FullSyncFailed([job EXCEPT !.output = r.output], r.exc)
                     /\ fs' = [fs EXCEPT !.pc = "rearm", !.exc = r.exc,
                                         !.exc_calls = Len(r.calls)]
                ELSE /\ job' = [job EXCEPT !.output = r.output]
                     /\ fs' = [fs EXCEPT !.del_left = @ \ {rr}]
    /\ UNCHANGED <<cfgVars, auxVars, ipam, edits, queue, runNo, prev, ipVars>>

\* for record in to_create: task.create_record(record)
FS_Create ==
    /\ fs.pc = "apply"
    /\ CreatesMayStart(fs)
    /\ fs.cre_left # {}
    /\ \E rr \in fs.cre_left, fail \in Fails(Cardinality(Servers)) :
         \E r \in {CreateRecord(rr, fail, srvRecs, job.output, fsCalls)} :
             /\ srvRecs' = r.recs
             /\ fsCalls' = r.calls
             /\ IF r.exc # None
                THEN /\ job' = FullSyncFailed([job EXCEPT !.output = r.output], r.exc)
                     /\ fs' = [fs EXCEPT !.pc = "rearm", !.exc = r.exc,
                                         !.exc_calls = Len(r.calls)]
                ELSE /\ job' = [job EXCEPT !.output = r.output]
                     /\ fs' = [fs EXCEPT !.cre_left = @ \ {rr}]
    /\ UNCHANGED <<cfgVars, auxVars, ipam, edits, queue, runNo, prev, ipVars>>

\* task.log_success("Finished"); task.job.terminate()
FS_Finish ==
    /\ fs.pc = "apply"
    /\ CreatesMayStart(fs)
    /\ fs.cre_left = {}
    /\ job' = JobTerminate(Log(job, "success", "Finished"), "completed")
    /\ fs' = [fs EXCEPT !.pc = "rearm"]
    /\ UNCHANGED <<cfgVars, auxVars, srvRecs, ipam, edits, fsCalls, queue, runNo, prev, ipVars>>

\* if job.interval: Job.enqueue(...)
FS_Rearm ==
    /\ fs.pc = "rearm"
    /\ \E now \in job.scheduled..(job.scheduled + MaxDelay) :
         queue' = Rearm(job, queue, now)
    /\ fs' = [fs EXCEPT !.pc = "returned"]
    /\ UNCHANGED <<cfgVars, auxVars, srvRecs, ipam, edits, job, fsCalls, runNo, prev, ipVars>>

\* the task runner starts the next enqueued job
NextRun ==
    /\ fs.pc = "returned"
    /\ queue # <<>>
    /\ runNo < MaxRuns
    /\ LET q == Head(queue)
       IN  /\ job' = NewJob(q.instance, q.schedule_at, q.interval, job.origin)
           /\ fs' = NewFullSync(q.instance)
    /\ queue' = Tail(queue)
    /\ fsCalls' = <<>>
    /\ runNo' = runNo + 1
    /\ prev' = [status |-> job.status, edits0 |-> fs.edits0, terms |-> job.terms]
    /\ UNCHANGED <<cfgVars, auxVars, srvRecs, ipam, edits, ipVars>>

-----------------------------------------------------------------------------
(* PowerdnsTaskIP: run_update_ip, create_forward, create_reverse.          *)

\* PowerdnsTaskIP.__init__; steps are the steps that returned, failed_in the
\* step that raised, exc what it raised, raised what the run raised
NewTaskIP(object) ==
    [pc |-> "idle", ip |-> object, attrs |-> NoAttrs, steps |-> <<>>,
     failed_in |-> None, exc |-> None, raised |-> None, wrote |-> FALSE]

NoTaskIP == [NewTaskIP(None) EXCEPT !.pc = "off"]

\* a try block that would go from job.start() straight to create_reverse()
AfterStartReverse == "reverse"

\* the steps of the try block of run_update_ip, in order
AfterStart == "forward"
AfterForward == "reverse"
AfterReverse == "finish"

\* an except clause that would re-raise without terminating the job
UpdateIpFailedNotTerminated(j, exc) ==
    [Log(j, "failure", exc) EXCEPT !.exception = exc]

\* an except clause that would not store the error text
UpdateIpFailedNoText(j, exc) ==
    JobTerminate(Log(j, "failure", exc), "errored")

\* the except clause of run_update_ip: what it leaves on the job
UpdateIpFailed(j, exc) ==
    JobTerminate([Log(j, "failure", exc) EXCEPT !.exception = exc], "errored")

\* the except clause of run_update_ip: raise e
Reraise(exc) == exc

\* what create_record left behind, taken over into the step's result
Applied(st, r) ==
    [st EXCEPT !.job = [@ EXCEPT !.output = r.output],
               !.recs = r.recs, !.calls = r.calls, !.exc = r.exc]

\* the log_info calls of create_forward
ForwardLog(j, attrs, rz) ==
    LET j1 == IF attrs.forward_zone = None THEN Log(j, "info", "no forward zone") ELSE j
        j2 == IF attrs.fqdn = <<>> THEN Log(j1, "info", "no fqdn") ELSE j1
    IN  IF rz = None THEN Log(j2, "info", "no reverse zone") ELSE j2

\* the DnsRecord of create_forward
ForwardRecord(a, ip, attrs) ==
    DnsRecord(RelName(attrs.fqdn, ZoneName(attrs.forward_zone)),
              FamilyType(Family(a)),
              Octets(a),
              IF GetIpTtl(ip) # 0 THEN GetIpTtl(ip) ELSE DefaultTtl(attrs.reverse_zone),
              ZoneName(attrs.forward_zone))

\* create_forward from line 238 on; st = [attrs, job, recs, calls, exc]
ForwardApply(a, ip, st, fail) ==
    IF st.attrs.forward_zone \notin Zones
      THEN [st EXCEPT !.exc = "AttributeError"]     \* self.forward_zone.name
    ELSE IF GetIpTtl(ip) = 0 /\ st.attrs.reverse_zone = None
      THEN [st EXCEPT !.exc = "AttributeError"]     \* self.reverse_zone.default_ttl
    ELSE Applied(st, CreateRecord(ForwardRecord(a, ip, st.attrs), fail, st.recs,
                                  st.job.output, st.calls))

\* make_fqdn and the lookup of the reverse zone, common to both steps
Resolved(a, attrs0) ==
    [MakeFqdn(ipam[a], attrs0) EXCEPT
        !.reverse_zone = GetBestZone(MakeReverseDomain(a))]

\* create_forward
CreateForwardFrom(a, attrs, fail, j0, recs, calls) ==
    ForwardApply(a, ipam[a],
                 [attrs |-> attrs,
                  job |-> ForwardLog(j0, attrs, attrs.reverse_zone),
                  recs |-> recs, calls |-> calls, exc |-> None],
                 fail)

CreateForward(a, attrs0, fail, j0, recs, calls) ==
    CreateForwardFrom(a, Resolved(a, attrs0), fail, j0, recs, calls)

\* the DnsRecord of create_reverse
ReverseRecord(a, ip, rz) ==
    DnsRecord(RelName(MakeReverseDomain(a), ZoneName(rz)),
              PTR_TYPE,
              PtrData(GenerateFqdn(ip, rz), GetCustomDomain(ip)),
              IF GetIpTtl(ip) # 0 THEN GetIpTtl(ip) ELSE DefaultTtl(rz),
              ZoneName(rz))

\* create_reverse after create_record returned r: set_dns_name, log_success
ReverseApplied(a, st, rr, r) ==
    IF r.exc # None THEN Applied(st, r)
    ELSE [Applied(st, r) EXCEPT
            !.job = Log(@, "success", "Reverse record created"),
            !.inv = SetDnsName(@, a, rr.data),
            !.wrote = TRUE]

\* create_reverse after make_fqdn; st = [attrs, job, recs, calls, inv, wrote, exc]
ReverseApply(a, ip, attrs1, st, rr, fail) ==
    IF attrs1.forward_zone = None
      THEN [st EXCEPT !.attrs = attrs1, !.exc = "NameError"]   \* {ip} in the message
    ELSE IF attrs1.fqdn = <<>>
      THEN [st EXCEPT !.attrs = attrs1, !.exc = "NameError"]   \* {ip} in the message
    ELSE IF st.attrs.reverse_zone = None
      THEN [st EXCEPT !.job = Log(@, "warning", "no reverse zone")]
    ELSE ReverseApplied(a, st, rr,
                        CreateRecord(rr, fail, st.recs, st.job.output, st.calls))

\* create_reverse
CreateReverseFrom(a, attrs1, attrs, fail, j0, recs, calls) ==
    ReverseApply(a, ipam[a], attrs1,
                 [attrs |-> attrs, job |-> j0, recs |-> recs, calls |-> calls,
                  inv |-> ipam, wrote |-> FALSE, exc |-> None],
                 ReverseRecord(a, ipam[a], attrs.reverse_zone),
                 fail)

CreateReverse(a, attrs0, fail, j0, recs, calls) ==
    CreateReverseFrom(a, MakeFqdn(ipam[a], attrs0), Resolved(a, attrs0), fail, j0,
                      recs, calls)

\* a run that would report a missing object as a failure
IP_StartMissingErrored ==
    /\ ipt.pc = "idle"
    /\ IF ipt.ip = None
       THEN /\ ipjob' = JobTerminate(Log(JobStart(ipjob), "failure", "no object"),
                                     "errored")
            /\ ipt' = [ipt EXCEPT !.pc = "returned"]
       ELSE /\ ipjob' = JobStart(ipjob)
            /\ ipt' = [ipt EXCEPT !.pc = AfterStart, !.steps = Append(@, "start")]
    /\ UNCHANGED <<cfgVars, auxVars, srvRecs, ipam, edits, fsVars, ipCalls>>

\* a runner that would hold the address job back while a full-zone sync is
\* between reading the records and applying the diff
IP_StartWhenNoFullSync ==
    /\ ipt.pc = "idle"
    /\ fs.pc \notin {"load_pdns", "apply"}
    /\ IF ipt.ip = None
       THEN /\ ipjob' = JobTerminate(Log(JobStart(ipjob), "warning", "no object"),
                                     "completed")
            /\ ipt' = [ipt EXCEPT !.pc = "returned"]
       ELSE /\ ipjob' = JobStart(ipjob)
            /\ ipt' = [ipt EXCEPT !.pc = AfterStart, !.steps = Append(@, "start")]
    /\ UNCHANGED <<cfgVars, auxVars, srvRecs, ipam, edits, fsVars, ipCalls>>

\* task = cls(job); the missing-object check; job.start()
IP_Start ==
    /\ ipt.pc = "idle"
    /\ IF ipt.ip = None
       THEN /\ ipjob' = JobTerminate(Log(JobStart(ipjob), "warning", "no object"),
                                     "completed")
            /\ ipt' = [ipt EXCEPT !.pc = "returned"]
       ELSE /\ ipjob' = JobStart(ipjob)
            /\ ipt' = [ipt EXCEPT !.pc = AfterStart, !.steps = Append(@, "start")]
    /\ UNCHANGED <<cfgVars, auxVars, srvRecs, ipam, edits, fsVars, ipCalls>>

\* task.create_forward()
IP_Forward ==
    /\ ipt.pc = "forward"
    /\ \E fail \in Fails(Cardinality(Servers)) :
         \E r \in {CreateForward(ipt.ip, ipt.attrs, fail, ipjob, srvRecs, ipCalls)} :
             /\ srvRecs' = r.recs
             /\ ipCalls' = r.calls
             /\ IF r.exc # None
                THEN /\ ipjob' = UpdateIpFailed(r.job, r.exc)
                     /\ ipt' = [ipt EXCEPT !.pc = "returned", !.attrs = r.attrs,
                                           !.failed_in = "forward", !.exc = r.exc,
                                           !.raised = Reraise(r.exc)]
                ELSE /\ ipjob' = r.job
                     /\ ipt' = [ipt EXCEPT !.pc = AfterForward, !.attrs = r.attrs,
                                           !.steps = Append(@, "forward")]
    /\ UNCHANGED <<cfgVars, auxVars, ipam, edits, fsVars>>

\* task.create_reverse()
IP_Reverse ==
    /\ ipt.pc = "reverse"
    /\ \E fail \in Fails(Cardinality(Servers)) :
         \E r \in {CreateReverse(ipt.ip, ipt.attrs, fail, ipjob, srvRecs, ipCalls)} :
             /\ srvRecs' = r.recs
             /\ ipCalls' = r.calls
             /\ ipam' = r.inv
             /\ IF r.exc # None
                THEN /\ ipjob' = UpdateIpFailed(r.job, r.exc)
                     /\ ipt' = [ipt EXCEPT !.pc = "returned", !.attrs = r.attrs,
                                           !.failed_in = "reverse", !.exc = r.exc,
                                           !.raised = Reraise(r.exc)]
                ELSE /\ ipjob' = r.job
                     /\ ipt' = [ipt EXCEPT !.pc = AfterReverse, !.attrs = r.attrs,
                                           !.steps = Append(@, "reverse"),
                                           !.wrote = r.wrote]
    /\ UNCHANGED <<cfgVars, auxVars, edits, fsVars>>

\* task.log_success("Finished"); task.job.terminate()
IP_Finish ==
    /\ ipt.pc = "finish"
    /\ ipjob' = JobTerminate(Log(ipjob, "success", "Finished"), "completed")
    /\ ipt' = [ipt EXCEPT !.pc = "returned"]
    /\ UNCHANGED <<cfgVars, auxVars, srvRecs, ipam, edits, fsVars, ipCalls>>

-----------------------------------------------------------------------------
(* Changes made by anybody but the jobs.                                   *)

EditNames == {<<>>, <<"h1", "ex">>}

StrayRecord(z) ==
    IF z = "zf"
    THEN DnsRecord(<<"old">>, "A", <<"10", "0", "0", "9">>, 3, ZoneName(z))
    ELSE DnsRecord(<<"9", "0", "0">>, PTR_TYPE, <<"old", "ex">>, 6, ZoneName(z))

GoodRecord(z) ==
    IF z = "zf"
    THEN DnsRecord(<<"h1">>, "A", <<"10", "0", "0", "1">>, 3, ZoneName(z))
    ELSE DnsRecord(<<"1", "0", "0">>, PTR_TYPE, <<"h1", "10", "in-addr", "arpa">>, 6,
                   ZoneName(z))

OtherRecord(z) == DnsRecord(<<>>, "NS", <<"ns", "ex">>, 3, ZoneName(z))

\* a user edits an address's DNS name, between two runs
EditInventory ==
    /\ fs.pc = "returned"
    /\ queue # <<>>
    /\ runNo < MaxRuns
    /\ edits < MaxEdits
    /\ \E a \in Addrs, n \in EditNames :
         /\ ipam[a].dns_name # n
         /\ ipam' = [ipam EXCEPT ![a].dns_name = n]
    /\ edits' = edits + 1
    /\ UNCHANGED <<cfgVars, auxVars, srvRecs, fsVars, ipVars>>

\* somebody adds a record on a server, between two runs
EditDns ==
    /\ fs.pc = "returned"
    /\ queue # <<>>
    /\ runNo < MaxRuns
    /\ edits < MaxEdits
    /\ \E s \in Servers, z \in {job.object} :
         /\ StrayRecord(z) \notin srvRecs[s][z]
         /\ srvRecs' = [srvRecs EXCEPT ![s][z] = @ \cup {StrayRecord(z)}]
    /\ edits' = edits + 1
    /\ UNCHANGED <<cfgVars, auxVars, ipam, fsVars, ipVars>>

-----------------------------------------------------------------------------
(* The variables of the operations that are looked at one call at a time.  *)

\* no create_record / delete_record / load_pdns_records call under way
NoApiCall ==
    [pc |-> "off", op |-> "-", rr |-> NoRecord, fail |-> NoFail, recs0 |-> {},
     output |-> <<>>, calls |-> <<>>, exc |-> None]

\* no Zone table under observation
NoZoneTab == [pc |-> "off", rows |-> <<>>, last |-> <<>>]

\* no zone name under observation
NoNet == [pc |-> "off", parts |-> <<>>, cidr |-> NoNetwork, exc |-> None,
          contained |-> FALSE]

-----------------------------------------------------------------------------
(* Initial states.                                                         *)

\* the addresses as the inventory may hold them
ProfilesA1 ==
    { [dns_name |-> <<>>, host |-> <<"h1">>, tags |-> {"tf"}, ttl |-> 0],
      [dns_name |-> <<"h1", "ex">>, host |-> <<>>, tags |-> {}, ttl |-> 9],
      [dns_name |-> <<>>, host |-> <<"h1">>, tags |-> {}, ttl |-> 0],
      [dns_name |-> <<>>, host |-> <<"h1">>, tags |-> {"tf"}, ttl |-> 9] }

ProfilesA2 ==
    { [dns_name |-> <<>>, host |-> <<"h2">>, tags |-> {"tf"}, ttl |-> 0],
      [dns_name |-> <<>>, host |-> <<"h2">>, tags |-> {"tr"}, ttl |-> 0] }

ZoneEnabledOptions ==
    { [z \in Zones |-> TRUE],
      [z \in Zones |-> z # "zf"],
      [z \in Zones |-> z # "zr"] }

\* the DNS side: (enabled servers, servers that lack zone z0, records of z0
\* on s1, records of z0 on s2)
DnsOptions(z0) ==
    { <<{"s1", "s2"}, {}, {}, {}>>,
      <<{"s1", "s2"}, {}, {GoodRecord(z0), StrayRecord(z0)},
                          {GoodRecord(z0), StrayRecord(z0)}>>,
      <<{"s1", "s2"}, {}, {GoodRecord(z0)}, {StrayRecord(z0)}>>,
      <<{"s1"}, {}, {GoodRecord(z0)}, {StrayRecord(z0)}>>,
      <<{}, {}, {}, {}>>,
      <<{"s1", "s2"}, {"s2"}, {StrayRecord(z0)}, {}>> }

InitEnv(z0) ==
    /\ zoneEnabled \in ZoneEnabledOptions
    /\ \E o \in DnsOptions(z0) :
         /\ srvEnabled = [s \in Servers |-> s \in o[1]]
         /\ srvZones = [s \in Servers |-> IF s \in o[2] THEN Zones \ {z0} ELSE Zones]
         /\ srvRecs = [s \in Servers |-> [z \in Zones |->
                         IF z # z0 THEN {}
                         ELSE IF s = "s1" THEN o[3] \cup {OtherRecord(z)}
                         ELSE o[4]]]
    /\ \E p1 \in ProfilesA1, p2 \in ProfilesA2 :
         ipam = [a \in Addrs |-> IF a = "a1" THEN p1 ELSE p2]
    /\ edits = 0

InitFull ==
    /\ \E z \in Zones, iv \in {0, 2} :
         /\ InitEnv(z)
         /\ job = NewJob(z, 10, iv, 10)
         /\ fs = NewFullSync(z)
    /\ fsCalls = <<>>
    /\ queue = <<>>
    /\ runNo = 1
    /\ prev = [status |-> "none", edits0 |-> 0, terms |-> 0]
    /\ ipjob = NewJob(None, 0, 0, 0)
    /\ ipt = NoTaskIP
    /\ ipCalls = <<>>
    /\ apiCall = NoApiCall
    /\ zoneTab = NoZoneTab
    /\ rdns = NoNet

NextFull ==
    \/ FS_Start
    \/ FS_LoadNetbox
    \/ FS_LoadPdns
    \/ FS_Delete
    \/ FS_Create
    \/ FS_Finish
    \/ FS_Rearm
    \/ NextRun
    \/ EditInventory
    \/ EditDns

SpecFull == InitFull /\ [][NextFull]_vars

InitIP ==
    /\ \E z \in Zones : InitEnv(z)
    /\ \E object \in Addrs \cup {None} :
         /\ ipjob = NewJob(object, 0, 0, 0)
         /\ ipt = NewTaskIP(object)
    /\ ipCalls = <<>>
    /\ job = NewJob(None, 0, 0, 0)
    /\ fs = NoFullSync
    /\ fsCalls = <<>>
    /\ queue = <<>>
    /\ runNo = 1
    /\ prev = [status |-> "none", edits0 |-> 0, terms |-> 0]
    /\ apiCall = NoApiCall
    /\ zoneTab = NoZoneTab
    /\ rdns = NoNet

NextIP ==
    \/ IP_Start
    \/ IP_Forward
    \/ IP_Reverse
    \/ IP_Finish

SpecIP == InitIP /\ [][NextIP]_vars

Init == InitFull \/ InitIP

Next == NextFull \/ NextIP

Spec == Init /\ [][Next]_vars

-----------------------------------------------------------------------------
(* A full-zone sync and a single-address sync run by two workers at the    *)
(* same time, while a user changes the inventory.                          *)

\* the match tag a user may put on an address
RaceTag == "tf"

RaceProfilesA1 ==
    { [dns_name |-> <<>>, host |-> <<"h1">>, tags |-> {}, ttl |-> 9],
      [dns_name |-> <<>>, host |-> <<"h1">>, tags |-> {RaceTag}, ttl |-> 9],
      [dns_name |-> <<>>, host |-> <<"h1">>, tags |-> {}, ttl |-> 0] }

InitRace ==
    /\ zoneEnabled \in {[z \in Zones |-> TRUE], [z \in Zones |-> z # "zr"]}
    /\ srvEnabled = [s \in Servers |-> TRUE]
    /\ srvZones = [s \in Servers |-> Zones]
    /\ \E z \in Zones :
         /\ \E held \in {{}, {GoodRecord(z)}} :
               srvRecs = [s \in Servers |-> [y \in Zones |->
                             IF y = z THEN held ELSE {}]]
         /\ job = NewJob(z, 10, 0, 10)
         /\ fs = NewFullSync(z)
    /\ \E p1 \in RaceProfilesA1, p2 \in ProfilesA2 :
         ipam = [a \in Addrs |-> IF a = "a1" THEN p1 ELSE p2]
    /\ edits = 0
    /\ fsCalls = <<>>
    /\ queue = <<>>
    /\ runNo = 1
    /\ prev = [status |-> "none", edits0 |-> 0, terms |-> 0]
    /\ ipjob = NewJob("a1", 0, 0, 0)
    /\ ipt = NewTaskIP("a1")
    /\ ipCalls = <<>>
    /\ apiCall = NoApiCall
    /\ zoneTab = NoZoneTab
    /\ rdns = NoNet

\* a user tags an address while the jobs are running
TagAddress ==
    /\ edits < MaxEdits
    /\ fs.pc \in {"load_pdns", "apply"}
    /\ \E a \in Addrs :
         /\ RaceTag \notin ipam[a].tags
         /\ ipam' = [ipam EXCEPT ![a].tags = @ \cup {RaceTag}]
    /\ edits' = edits + 1
    /\ UNCHANGED <<cfgVars, auxVars, srvRecs, fsVars, ipVars>>

NextRace ==
    \/ FS_Start
    \/ FS_LoadNetbox
    \/ FS_LoadPdns
    \/ FS_Delete
    \/ FS_Create
    \/ FS_Finish
    \/ FS_Rearm
    \/ IP_Start
    \/ IP_Forward
    \/ IP_Reverse
    \/ IP_Finish
    \/ TagAddress

SpecRace == InitRace /\ [][NextRace]_vars

-----------------------------------------------------------------------------
(* create_record, delete_record and load_pdns_records, one call at a time, *)
(* under any configuration of the servers.                                 *)

InitApi ==
    /\ zoneEnabled = [z \in Zones |-> TRUE]
    /\ srvEnabled \in [Servers -> BOOLEAN]
    /\ \E z0 \in Zones :
         /\ \E lacking \in SUBSET Servers :
               srvZones = [s \in Servers |->
                              IF s \in lacking THEN Zones \ {z0} ELSE Zones]
         /\ \E holding \in SUBSET Servers :
               srvRecs = [s \in Servers |-> [z \in Zones |->
                             IF z = z0 /\ s \in holding /\ z \in srvZones[s]
                             THEN {GoodRecord(z0)} ELSE {}]]
         /\ \E op \in {"CREATE", "DELETE", "LIST"},
               rr \in {GoodRecord(z0), StrayRecord(z0)},
               fail \in Fails(Cardinality(Servers)) :
               apiCall = [NoApiCall EXCEPT !.pc = "idle", !.op = op, !.rr = rr,
                                           !.fail = fail, !.recs0 = srvRecs]
    /\ ipam = [a \in Addrs |->
                 [dns_name |-> <<>>, host |-> <<>>, tags |-> {}, ttl |-> 0]]
    /\ edits = 0
    /\ job = NewJob(None, 0, 0, 0)
    /\ fs = NoFullSync
    /\ fsCalls = <<>>
    /\ queue = <<>>
    /\ runNo = 1
    /\ prev = [status |-> "none", edits0 |-> 0, terms |-> 0]
    /\ ipjob = NewJob(None, 0, 0, 0)
    /\ ipt = NoTaskIP
    /\ ipCalls = <<>>
    /\ zoneTab = NoZoneTab
    /\ rdns = NoNet

\* task.create_record(dns_record)
Api_Create ==
    /\ apiCall.pc = "idle"
    /\ apiCall.op = "CREATE"
    /\ \E r \in {CreateRecord(apiCall.rr, apiCall.fail, srvRecs, <<>>, <<>>)} :
         /\ srvRecs' = r.recs
         /\ apiCall' = [apiCall EXCEPT !.pc = "done", !.output = r.output,
                                       !.calls = r.calls, !.exc = r.exc]
    /\ UNCHANGED <<cfgVars, ipam, edits, fsVars, ipVars, zoneTab, rdns>>

\* task.delete_record(dns_record)
Api_Delete ==
    /\ apiCall.pc = "idle"
    /\ apiCall.op = "DELETE"
    /\ \E r \in {DeleteRecord(apiCall.rr, apiCall.fail, srvRecs, <<>>, <<>>)} :
         /\ srvRecs' = r.recs
         /\ apiCall' = [apiCall EXCEPT !.pc = "done", !.output = r.output,
                                       !.calls = r.calls, !.exc = r.exc]
    /\ UNCHANGED <<cfgVars, ipam, edits, fsVars, ipVars, zoneTab, rdns>>

\* task.load_pdns_records(), for the zone of the record at hand
Api_List ==
    /\ apiCall.pc = "idle"
    /\ apiCall.op = "LIST"
    /\ \E r \in {LoadPdnsRecords(ZoneByName(apiCall.rr.zone_name), apiCall.fail,
                                  <<>>)} :
         apiCall' = [apiCall EXCEPT !.pc = "done", !.calls = r.calls,
                                    !.exc = r.exc]
    /\ UNCHANGED <<cfgVars, srvRecs, ipam, edits, fsVars, ipVars, zoneTab, rdns>>

NextApi ==
    \/ Api_Create
    \/ Api_Delete
    \/ Api_List

SpecApi == InitApi /\ [][NextApi]_vars

-----------------------------------------------------------------------------
(* The zone table under the unique_is_default constraint.                  *)

MaxZoneRows == 3   \* primary keys the zone table may use

ZoneIds == 1..MaxZoneRows

\* a primary key without a row
NoZoneRow == [present |-> FALSE, is_default |-> FALSE]

NoZoneOp == [op |-> "-", id |-> 0, is_default |-> FALSE, ok |-> TRUE,
             before |-> <<>>]

\* the rows the partial index of unique_is_default covers
\* (condition = Q(is_default = True))
IndexedRows(rows) ==
    {i \in DOMAIN rows : rows[i].present /\ rows[i].is_default = TRUE}

\* a table on which no constraint is in force
UniqueIsDefaultDropped(rows) == TRUE

\* UniqueConstraint(fields = ("is_default",), condition = Q(is_default = True)):
\* no two indexed rows carry the same value of is_default
UniqueIsDefault(rows) ==
    \A i, j \in IndexedRows(rows) :
        i # j => rows[i].is_default # rows[j].is_default

\* the statement is applied when the constraint holds afterwards, and is
\* rejected with the table as it was otherwise
ZoneStatement(op, i, flag, rows) ==
    IF UniqueIsDefault(rows)
    THEN [pc |-> "idle", rows |-> rows,
          last |-> [op |-> op, id |-> i, is_default |-> flag, ok |-> TRUE,
                    before |-> zoneTab.rows]]
    ELSE [pc |-> "idle", rows |-> zoneTab.rows,
          last |-> [op |-> op, id |-> i, is_default |-> flag, ok |-> FALSE,
                    before |-> zoneTab.rows]]

\* everything but the zone table and the derivation at rest
NothingRunning ==
    /\ zoneEnabled = [z \in Zones |-> TRUE]
    /\ srvEnabled = [s \in Servers |-> TRUE]
    /\ srvZones = [s \in Servers |-> Zones]
    /\ srvRecs = [s \in Servers |-> [z \in Zones |-> {}]]
    /\ ipam = [a \in Addrs |->
                 [dns_name |-> <<>>, host |-> <<>>, tags |-> {}, ttl |-> 0]]
    /\ edits = 0
    /\ job = NewJob(None, 0, 0, 0)
    /\ fs = NoFullSync
    /\ fsCalls = <<>>
    /\ queue = <<>>
    /\ runNo = 1
    /\ prev = [status |-> "none", edits0 |-> 0, terms |-> 0]
    /\ ipjob = NewJob(None, 0, 0, 0)
    /\ ipt = NoTaskIP
    /\ ipCalls = <<>>
    /\ apiCall = NoApiCall

InitZones ==
    /\ NothingRunning
    /\ zoneTab = [pc |-> "idle", rows |-> [i \in ZoneIds |-> NoZoneRow],
                  last |-> NoZoneOp]
    /\ rdns = NoNet

\* a Zone is created (INSERT)
Zone_Create ==
    /\ zoneTab.pc = "idle"
    /\ \E i \in ZoneIds, flag \in BOOLEAN :
         /\ ~zoneTab.rows[i].present
         /\ zoneTab' = ZoneStatement("create", i, flag,
                [zoneTab.rows EXCEPT ![i] = [present |-> TRUE,
                                             is_default |-> flag]])
    /\ UNCHANGED <<cfgVars, srvRecs, ipam, edits, fsVars, ipVars, apiCall, rdns>>

\* a Zone is edited (UPDATE)
Zone_Edit ==
    /\ zoneTab.pc = "idle"
    /\ \E i \in ZoneIds, flag \in BOOLEAN :
         /\ zoneTab.rows[i].present
         /\ zoneTab' = ZoneStatement("edit", i, flag,
                [zoneTab.rows EXCEPT ![i].is_default = flag])
    /\ UNCHANGED <<cfgVars, srvRecs, ipam, edits, fsVars, ipVars, apiCall, rdns>>

NextZones ==
    \/ Zone_Create
    \/ Zone_Edit

SpecZones == InitZones /\ [][NextZones]_vars

-----------------------------------------------------------------------------
(* get_addresses: the network derived from the name of the zone.           *)

MaxOctets == 4    \* labels before in-addr.arpa
MaxNibbles == 5   \* labels before ip6.arpa

\* labels a zone name may carry before in-addr.arpa ("x" is no octet)
OctetLabels == {"10", "72", "x"}

\* labels a zone name may carry before ip6.arpa ("g" is no hexadecimal
\* digit, "10" is two digits)
NibbleLabels == {"0", "2", "g", "10"}

\* sequences over a set of labels, of the given lengths
SeqsOf(labels, lo, hi) ==
    UNION {[1..n -> labels] : n \in lo..hi}

\* the nibble-aligned IPv6 networks of up to MaxNibbles nibbles
Networks6 ==
    {[family |-> 6, prefix |-> p, len |-> 4 * Len(p)] :
        p \in SeqsOf({"0", "2"}, 1, MaxNibbles)}

\* the ip6.arpa name of a nibble-aligned network: its nibbles in reverse
\* order, one label each
Ip6ArpaName(n) == Reverse(n.prefix) \o <<"ip6", "arpa">>

InitNet ==
    /\ NothingRunning
    /\ zoneTab = NoZoneTab
    /\ \E parts \in
           {p \o <<"in-addr", "arpa">> : p \in SeqsOf(OctetLabels, 0, MaxOctets)}
           \cup {p \o <<"ip6", "arpa">> : p \in SeqsOf(NibbleLabels, 1, MaxNibbles)}
           \cup {<<"ex">>, <<"0", "0", "0", "ip6">>} :
         rdns = [NoNet EXCEPT !.pc = "idle", !.parts = parts]

\* get_addresses, from the split of the zone's name to the query's
\* containment criterion
Net_Derive ==
    /\ rdns.pc = "idle"
    /\ \E r \in {NetworkCidrOf(rdns.parts)} :
         rdns' = [rdns EXCEPT !.pc = "done", !.cidr = r.cidr, !.exc = r.exc,
                              !.contained = (r.exc = None /\ r.cidr # NoNetwork)]
    /\ UNCHANGED <<cfgVars, srvRecs, ipam, edits, fsVars, ipVars, apiCall,
                   zoneTab>>

NextNet == Net_Derive

SpecNet == InitNet /\ [][NextNet]_vars

-----------------------------------------------------------------------------
(* Properties.                                                             *)

\* the create_records / delete_records calls among a sequence of API calls
Mutations(calls) ==
    {i \in 1..Len(calls) : calls[i].api \in {"create_records", "delete_records"}}

\* C1: idempotence of full-zone sync.  If the previous full-zone sync of the
\* zone ended Completed and nobody but the sync has changed the inventory or
\* the servers' records since that run started, the next run computes an
\* empty to_create and an empty to_delete and issues no create or delete call.
C1_SecondRunEmptyDiff ==
    (/\ runNo > 1
     /\ prev.status = "completed"
     /\ edits = prev.edits0
     /\ fs.diffed)
        => /\ fs.to_create = {}
           /\ fs.to_delete = {}
           /\ Mutations(fsCalls) = {}

\* C2: diff correctness.  Once a run has computed its diff, to_create is
\* exactly the desired records that are not published and to_delete exactly
\* the published records that are not desired, records being compared as
\* full tuples (name, type, data, ttl, zone_name); the two sets are disjoint;
\* a record that is both desired and published is in neither and no create
\* or delete call is ever issued for it; a record whose TTL alone changed is
\* deleted with the old TTL and created with the new one; the only mutating
\* calls are delete_records for members of to_delete and create_records for
\* members of to_create.
SameButTtl(d, a) ==
    /\ d.ttl # a.ttl
    /\ [d EXCEPT !.ttl = 0] = [a EXCEPT !.ttl = 0]

C2_DiffCorrect ==
    fs.diffed =>
        /\ fs.to_create = {r \in fs.netbox_records : r \notin fs.pdns_records}
        /\ fs.to_delete = {r \in fs.pdns_records : r \notin fs.netbox_records}
        /\ fs.to_create \cap fs.to_delete = {}
        /\ \A r \in fs.netbox_records \cap fs.pdns_records :
              /\ r \notin fs.to_create \cup fs.to_delete
              /\ \A i \in Mutations(fsCalls) : fsCalls[i].rr # r
        /\ \A d \in fs.netbox_records, a \in fs.pdns_records :
              (SameButTtl(d, a) /\ d \notin fs.pdns_records /\ a \notin fs.netbox_records)
                  => (a \in fs.to_delete /\ d \in fs.to_create)
        /\ \A i \in Mutations(fsCalls) :
              IF fsCalls[i].api = "delete_records"
              THEN fsCalls[i].rr \in fs.to_delete
              ELSE fsCalls[i].rr \in fs.to_create

\* a run that replaced a record because its TTL changed, and kept another
C2_TtlChangeApplied ==
    /\ fs.diffed
    /\ job.status = "completed"
    /\ \E d \in fs.to_create, a \in fs.to_delete : SameButTtl(d, a)
    /\ \E i, k \in Mutations(fsCalls) :
          /\ fsCalls[i].api = "delete_records"
          /\ fsCalls[k].api = "create_records"
          /\ SameButTtl(fsCalls[k].rr, fsCalls[i].rr)

\* C3: deletes before creates.  In every run, every delete_records call comes
\* before every create_records call, and once a create_records call has been
\* issued no record of to_delete is still waiting to be deleted.
C3_DeletesBeforeCreates ==
    /\ \A i, k \in Mutations(fsCalls) :
          (fsCalls[i].api = "delete_records" /\ fsCalls[k].api = "create_records")
              => i < k
    /\ (\E k \in Mutations(fsCalls) : fsCalls[k].api = "create_records")
          => fs.del_left = {}

\* a run that deleted records on two servers and then created one
C3_DeletedThenCreated ==
    /\ \E k \in Mutations(fsCalls) : fsCalls[k].api = "create_records"
    /\ \E i, k \in Mutations(fsCalls) :
          /\ fsCalls[i].api = "delete_records"
          /\ fsCalls[k].api = "delete_records"
          /\ fsCalls[i].server # fsCalls[k].server

\* C4: re-arming.  When a run has returned, the queue holds exactly one new
\* run for the same zone if the job carries an interval, whatever the run's
\* outcome (diff applied, zone disabled, NoServers, any other exception), and
\* nothing if it carries none.
C4_RearmedInEveryOutcome ==
    fs.pc = "returned" =>
        IF job.interval # 0
        THEN /\ Len(queue) = 1
             /\ queue[1].instance = job.object
        ELSE queue = <<>>

\* C5: cadence without drift.  Every enqueued run is scheduled at the
\* current job's scheduled time plus the interval and carries the same
\* interval, whenever the current run reached its end; and the job of the
\* k-th successor of a chain that started at t0 is scheduled at
\* t0 + k * interval.
C5_Cadence ==
    /\ \A i \in 1..Len(queue) :
          /\ queue[i].schedule_at = job.scheduled + job.interval
          /\ queue[i].interval = job.interval
    /\ fs.pc # "off" => job.scheduled = job.origin + (runNo - 1) * job.interval

\* the second successor of a chain has enqueued the third
C5_ThirdEnqueued ==
    /\ runNo = 3
    /\ queue # <<>>
    /\ job.scheduled = job.origin + 2 * job.interval

\* C6: a disabled zone is a no-op.  A run for a zone that is not enabled,
\* once started, has returned with status Completed, has not enumerated the
\* candidate addresses, has issued no API call at all (no listing, no create,
\* no delete), has reported no change and has written back no DNS name.
C6_DisabledNoop ==
    (fs.pc \notin {"off", "idle"} /\ ~zoneEnabled[fs.zone]) =>
        /\ fs.pc = "returned"
        /\ job.status = "completed"
        /\ job.terms = 1
        /\ ~fs.enumerated
        /\ fs.written = {}
        /\ fsCalls = <<>>
        /\ job.output = <<>>
        /\ ~fs.diffed

\* a disabled zone whose servers hold a record nobody wants was left alone
C6_DisabledWithWork ==
    /\ fs.pc = "returned"
    /\ ~zoneEnabled[fs.zone]
    /\ srvEnabled["s1"]
    /\ StrayRecord(fs.zone) \in srvRecs["s1"][fs.zone]

\* C7: full-zone sync fails fast.  If loading the published records or a
\* delete or a create raised, the job is terminated once, with status
\* Errored and the failure logged; no API call is issued in that run after
\* the failing one; the run goes on to its tail and raises nothing.
C7_FailFast ==
    fs.exc # None =>
        /\ job.status = "errored"
        /\ job.terms = 1
        /\ job.log[Len(job.log)] = <<"failure", fs.exc>>
        /\ fs.pc \in {"rearm", "returned"}
        /\ Len(fsCalls) = fs.exc_calls
        /\ fs.raised = None

\* a delete failed on the second server while records were still waiting
C7_FailedMidway ==
    /\ fs.exc = "ApiError"
    /\ fs.pc = "returned"
    /\ fs.cre_left # {}
    /\ \E i \in Mutations(fsCalls) : fsCalls[i].server = "s2"

\* the create_records calls of the forward and of the reverse step
IsForwardCreate(c) ==
    c.api = "create_records" /\ c.rr.type \in {FamilyType(4), FamilyType(6)}

IsReverseCreate(c) ==
    c.api = "create_records" /\ c.rr.type = PTR_TYPE

\* C8: step order of single-address sync.  No API call is issued before the
\* job was started; every forward create precedes every PTR create; a PTR
\* create is issued only after the forward step returned, having created the
\* forward record on every enabled server; a job that ended with the success
\* status for an existing address went through start, forward and reverse,
\* in that order, and was terminated once; a run whose forward step failed
\* issued no PTR create.
C8_ForwardThenReverse ==
    /\ ipCalls # <<>> => ipjob.starts = 1
    /\ \A i, k \in 1..Len(ipCalls) :
          (IsForwardCreate(ipCalls[i]) /\ IsReverseCreate(ipCalls[k])) => i < k
    /\ \A k \in 1..Len(ipCalls) :
          IsReverseCreate(ipCalls[k]) =>
              /\ Len(ipt.steps) >= 2
              /\ ipt.steps[2] = "forward"
              /\ \A s \in Servers :
                    srvEnabled[s] =>
                        \E i \in 1..(k - 1) :
                            IsForwardCreate(ipCalls[i]) /\ ipCalls[i].server = s
    /\ (ipt.ip # None /\ ipjob.status = "completed") =>
          /\ ipt.steps = <<"start", "forward", "reverse">>
          /\ ipjob.terms = 1
    /\ ipt.failed_in = "forward" =>
          \A k \in 1..Len(ipCalls) : ~IsReverseCreate(ipCalls[k])

\* a run that created the forward record on two servers, then the PTR record
\* on both, and ended with the success status
C8_BothCreated ==
    /\ ipjob.status = "completed"
    /\ \A s \in Servers :
          /\ \E i \in 1..Len(ipCalls) :
                IsForwardCreate(ipCalls[i]) /\ ipCalls[i].server = s
          /\ \E k \in 1..Len(ipCalls) :
                IsReverseCreate(ipCalls[k]) /\ ipCalls[k].server = s

\* C9: failure of single-address sync.  If the forward or the reverse step
\* raised, the job is terminated once, with status Errored, the error text
\* is stored on the job and logged, and the run raises that same exception;
\* a run that raised has not ended with status Completed, and a run that
\* raised nothing is not Errored.
C9_ErroredAndReraised ==
    /\ ipt.failed_in # None =>
          /\ ipt.exc # None
          /\ ipjob.status = "errored"
          /\ ipjob.terms = 1
          /\ ipjob.exception = ipt.exc
          /\ ipjob.log[Len(ipjob.log)] = <<"failure", ipt.exc>>
          /\ ipt.raised = ipt.exc
          /\ ipt.pc = "returned"
    /\ ipt.raised # None => (ipt.failed_in # None /\ ipjob.status # "completed")
    /\ ipt.failed_in = None => (ipjob.status # "errored" /\ ipjob.exception = None)

\* the reverse step failed on the API after the forward record was created
C9_ReverseFailed ==
    /\ ipt.failed_in = "reverse"
    /\ ipt.exc = "ApiError"
    /\ \E i \in 1..Len(ipCalls) : IsForwardCreate(ipCalls[i])

\* the exceptions create_record raises for the servers' sake
ApplyErrors == {"NoServers", "ServerZoneMissing", "ApiError"}

\* C10: skip outcomes are non-fatal in single-address sync.  When the run of
\* an existing address has returned and no forward zone was found, or no
\* FQDN could be derived, or no reverse zone was found, then the skipped
\* side issued no create call, the skip itself raised nothing (the only
\* exceptions are those of create_record on the other side), and a run in
\* which create_record raised nothing ended with the success status.
C10_SkipsNonFatal ==
    (/\ ipt.pc = "returned"
     /\ ipt.ip # None
     /\ \/ ipt.attrs.forward_zone = None
        \/ ipt.attrs.fqdn = <<>>
        \/ ipt.attrs.reverse_zone = None)
        => /\ ipt.raised \in {None} \cup ApplyErrors
           /\ ipt.raised = None => ipjob.status = "completed"
           /\ (ipt.attrs.forward_zone = None \/ ipt.attrs.fqdn = <<>>) =>
                 \A i \in 1..Len(ipCalls) : ~IsForwardCreate(ipCalls[i])
           /\ ipt.attrs.reverse_zone = None =>
                 \A i \in 1..Len(ipCalls) : ~IsReverseCreate(ipCalls[i])

\* C11: missing address object.  A single-address run whose job names an
\* address that no longer exists has, once it has taken its first step,
\* returned: the job was started once, one warning was logged and nothing
\* else, the job was terminated once with status Completed, nothing was
\* raised, no API call was issued, no change was reported and no DNS name
\* was written back.
C11_MissingObjectCompleted ==
    (ipt.ip = None /\ ipt.pc \notin {"off", "idle"}) =>
        /\ ipt.pc = "returned"
        /\ ipjob.starts = 1
        /\ ipjob.log = <<<<"warning", "no object">>>>
        /\ ipjob.status = "completed"
        /\ ipjob.terms = 1
        /\ ipjob.exception = None
        /\ ipt.raised = None
        /\ ipt.steps = <<>>
        /\ ipCalls = <<>>
        /\ ipjob.output = <<>>
        /\ ~ipt.wrote

\* the run for a missing address has returned, with servers ready to serve
C11_MissingObjectRan ==
    /\ ipt.ip = None
    /\ ipt.pc = "returned"
    /\ ipjob.terms = 1
    /\ \A s \in Servers : srvEnabled[s]

\* C12: NoServers.  A create_record, delete_record or load_pdns_records call
\* has failed with NoServers exactly when no server is enabled; and then it
\* has made no API call at all (no get_zone, no records, no create_records,
\* no delete_records), has recorded no audit row and has left every
\* server's records as they were.
C12_NoServers ==
    apiCall.pc = "done" =>
        /\ apiCall.exc = "NoServers" <=> (\A s \in Servers : ~srvEnabled[s])
        /\ apiCall.exc = "NoServers" =>
              /\ apiCall.calls = <<>>
              /\ apiCall.output = <<>>
              /\ srvRecs = apiCall.recs0

\* a delete failed with NoServers although both servers hold the record
C12_DeleteWithoutServers ==
    /\ apiCall.pc = "done"
    /\ apiCall.op = "DELETE"
    /\ apiCall.exc = "NoServers"
    /\ \A s \in Servers : apiCall.rr \in srvRecs[s][ZoneByName(apiCall.rr.zone_name)]

\* the enabled servers in name order, and the first of them that lacks zone z
EnabledInOrder == SelectSeq(ServerOrder, LAMBDA s : srvEnabled[s])

FirstLacking(z) ==
    LET lacking == {i \in 1..Len(EnabledInOrder) : z \notin srvZones[EnabledInOrder[i]]}
    IN  IF lacking = {} THEN 0
        ELSE CHOOSE i \in lacking : \A k \in lacking : i <= k

\* C13: ServerZoneMissing.  A create_record or delete_record call has failed
\* with ServerZoneMissing exactly when some enabled server lacks the zone
\* and the API did not fail on a server before the first such one; and then
\* the record was applied, in the servers' order, on the enabled servers
\* before that one and on no other: the last API call is the get_zone on
\* that server, one audit row was recorded per server applied to, and the
\* records of that server and of every server after it are as they were.
C13_ServerZoneMissing ==
    (apiCall.pc = "done" /\ apiCall.op \in {"CREATE", "DELETE"}) =>
        LET z == ZoneByName(apiCall.rr.zone_name)
            k == FirstLacking(z)
            muts == SelectSeq(apiCall.calls,
                              LAMBDA c : c.api \in {"create_records", "delete_records"})
        IN  /\ apiCall.exc = "ServerZoneMissing" <=>
                  (k > 0 /\ (apiCall.fail = NoFail \/ apiCall.fail.at >= k))
            /\ apiCall.exc = "ServerZoneMissing" =>
                  /\ Len(muts) = k - 1
                  /\ \A i \in 1..(k - 1) :
                        /\ muts[i].server = EnabledInOrder[i]
                        /\ muts[i].rr = apiCall.rr
                  /\ apiCall.calls[Len(apiCall.calls)] =
                        Call("get_zone", EnabledInOrder[k], apiCall.rr.zone_name,
                             NoRecord)
                  /\ Len(apiCall.output) = k - 1
                  /\ \A i \in k..Len(EnabledInOrder) :
                        srvRecs[EnabledInOrder[i]] = apiCall.recs0[EnabledInOrder[i]]

\* a create reached the first server and failed on the second, which lacks
\* the zone
C13_SecondServerLacksZone ==
    /\ apiCall.pc = "done"
    /\ apiCall.op = "CREATE"
    /\ apiCall.exc = "ServerZoneMissing"
    /\ FirstLacking(ZoneByName(apiCall.rr.zone_name)) = 2
    /\ apiCall.rr \in srvRecs["s1"][ZoneByName(apiCall.rr.zone_name)]
    /\ apiCall.rr \notin apiCall.recs0["s1"][ZoneByName(apiCall.rr.zone_name)]

\* the full-zone sync has read the inventory and not yet applied its diff
BetweenReadAndApply == fs.pc \in {"load_pdns", "apply"}

\* C14: no mutual exclusion between syncs of the same zone.  Whenever a
\* full-zone sync is between its read of the inventory and the end of its
\* deletes and creates, a single-address sync that is due can start and
\* one that has done its steps can end; and whenever the single-address
\* sync is between its steps, the full-zone sync can list the published
\* records and can go on with its deletes and creates.
C14_NoMutualExclusion ==
    /\ (BetweenReadAndApply /\ ipt.pc = "idle") => ENABLED IP_Start
    /\ (BetweenReadAndApply /\ ipt.pc = "finish") => ENABLED IP_Finish
    /\ (ipt.pc \in {"forward", "reverse", "finish"} /\ fs.pc = "load_pdns")
          => ENABLED FS_LoadPdns
    /\ (ipt.pc \in {"forward", "reverse", "finish"} /\ fs.pc = "apply")
          => ENABLED (FS_Delete \/ FS_Create \/ FS_Finish)

\* a lost update: both runs have ended with the success status; the
\* single-address sync created a record that the full-zone sync, working
\* from the inventory it had read before the address was tagged, deleted
\* afterwards; no server holds the record, and the desired set computed
\* from the final inventory contains it
C14_LostUpdate ==
    /\ edits > 0
    /\ ~IsReverse(fs.zone)
    /\ fs.pc = "returned"
    /\ job.status = "completed"
    /\ ipt.pc = "returned"
    /\ ipjob.status = "completed"
    /\ \E i \in 1..Len(ipCalls), k \in 1..Len(fsCalls) :
          /\ ipCalls[i].api = "create_records"
          /\ fsCalls[k].api = "delete_records"
          /\ fsCalls[k].rr = ipCalls[i].rr
          /\ \A s \in Servers : ipCalls[i].rr \notin srvRecs[s][fs.zone]
          /\ \A order \in Orders(GetAddresses(fs.zone, ipam)) :
                ipCalls[i].rr \in LoadNetboxRecords(fs.zone, order, ipam).records

\* C15: at most one stored Zone has is_default = true, and a create or edit
\* that would make a second zone default while another one is default is
\* rejected and leaves the stored zones as they were.
C15_SingleDefaultZone ==
    zoneTab.pc = "idle" =>
        /\ Cardinality({i \in ZoneIds : zoneTab.rows[i].present
                                         /\ zoneTab.rows[i].is_default}) <= 1
        /\ ( /\ zoneTab.last.op # "-"
             /\ zoneTab.last.is_default
             /\ \E j \in ZoneIds \ {zoneTab.last.id} :
                    /\ zoneTab.last.before[j].present
                    /\ zoneTab.last.before[j].is_default )
           => (~zoneTab.last.ok /\ zoneTab.rows = zoneTab.last.before)
        /\ ~zoneTab.last.ok => zoneTab.rows = zoneTab.last.before

\* an edit that asked for a second default zone was refused
C15_SecondDefaultRejected ==
    /\ zoneTab.pc = "idle"
    /\ zoneTab.last.op = "edit"
    /\ zoneTab.last.is_default
    /\ ~zoneTab.last.ok
    /\ \E i, j \in ZoneIds :
          /\ i # j /\ j = zoneTab.last.id
          /\ zoneTab.rows[i].present /\ zoneTab.rows[i].is_default
          /\ zoneTab.rows[j].present /\ ~zoneTab.rows[j].is_default

\* a name of octets followed by in-addr.arpa
IsInAddrName(parts) ==
    /\ Len(parts) >= 2
    /\ SubSeq(parts, Len(parts) - 1, Len(parts)) = <<"in-addr", "arpa">>
    /\ \A i \in 1..(Len(parts) - 2) : parts[i] \in DecimalOctets

\* C16: o3.o2.o1.in-addr.arpa. gives o1.o2.o3.0/24, o2.o1.in-addr.arpa.
\* gives o1.o2.0.0/16, o1.in-addr.arpa. gives o1.0.0.0/8, and any other
\* number of octet labels gives no network and no containment criterion.
C16_Ipv4ReverseDerivation ==
    (rdns.pc = "done" /\ IsInAddrName(rdns.parts)) =>
        /\ rdns.exc = None
        /\ Len(rdns.parts) = 5 =>
              /\ rdns.cidr = [family |-> 4, len |-> 24,
                              prefix |-> <<rdns.parts[3], rdns.parts[2],
                                           rdns.parts[1]>>]
              /\ rdns.contained
        /\ Len(rdns.parts) = 4 =>
              /\ rdns.cidr = [family |-> 4, len |-> 16,
                              prefix |-> <<rdns.parts[2], rdns.parts[1]>>]
              /\ rdns.contained
        /\ Len(rdns.parts) = 3 =>
              /\ rdns.cidr = [family |-> 4, len |-> 8,
                              prefix |-> <<rdns.parts[1]>>]
              /\ rdns.contained
        /\ Len(rdns.parts) \notin {3, 4, 5} =>
              /\ rdns.cidr = NoNetwork
              /\ ~rdns.contained

\* 72.10.in-addr.arpa. gave 10.72.0.0/16
C16_SixteenDerived ==
    /\ rdns.pc = "done"
    /\ rdns.parts = <<"72", "10", "in-addr", "arpa">>
    /\ rdns.cidr = [family |-> 4, prefix |-> <<"10", "72">>, len |-> 16]
    /\ rdns.contained

\* C17: the network derived from the ip6.arpa. name of a nibble-aligned
\* network N is N, with prefix length 4 * nibble count, and a malformed
\* nibble sequence gives no network and no exception.
C17_Ipv6RoundTrip ==
    rdns.pc = "done" =>
        /\ \A n \in Networks6 :
              rdns.parts = Ip6ArpaName(n) => (rdns.cidr = n /\ rdns.exc = None)
        /\ ( /\ Len(rdns.parts) > 2
             /\ SubSeq(rdns.parts, Len(rdns.parts) - 1, Len(rdns.parts))
                   = <<"ip6", "arpa">>
             /\ \E i \in 1..(Len(rdns.parts) - 2) :
                    \E k \in DOMAIN Chars(rdns.parts[i]) :
                        Chars(rdns.parts[i])[k] \notin HexDigits )
           => (rdns.cidr = NoNetwork /\ rdns.exc = None)

\* C18: every record of the desired set a full-zone sync of zone Z builds
\* has zone_name = Z, a PTR record is among them only when Z is a reverse
\* zone, and every API call, create and delete included, targets zone Z.
C18_ZoneRestriction ==
    fs.zone \in Zones =>
        /\ \A r \in fs.netbox_records :
              /\ r.zone_name = ZoneName(fs.zone)
              /\ r.type = PTR_TYPE => IsReverse(fs.zone)
        /\ \A r \in fs.to_create \cup fs.to_delete :
              r.zone_name = ZoneName(fs.zone)
        /\ \A i \in 1..Len(fsCalls) : fsCalls[i].zone = ZoneName(fs.zone)
        /\ \A i \in Mutations(fsCalls) :
              fsCalls[i].rr.zone_name = ZoneName(fs.zone)

\* the first sync of the reverse zone wrote the PTR record of an address
\* whose forward zone is the other zone, and created nothing but PTR records
C18_ReverseSyncOfForwardHost ==
    /\ runNo = 1
    /\ fs.zone = "zr"
    /\ fs.pc = "returned"
    /\ job.status = "completed"
    /\ zoneEnabled["zf"]
    /\ "tf" \in ipam["a1"].tags
    /\ "a1" \in fs.written
    /\ \E i \in Mutations(fsCalls) :
          /\ fsCalls[i].api = "create_records"
          /\ fsCalls[i].rr.name = <<"1", "0", "0">>
    /\ \A i \in Mutations(fsCalls) :
          fsCalls[i].api = "create_records" => fsCalls[i].rr.type = PTR_TYPE

\* the address's generated FQDN is the empty string
EmptyFqdn(a) == MakeFqdn(ipam[a], NoAttrs).fqdn = <<>>

\* a forward record for address a
IsForwardOf(r, a) ==
    r.type \in {FamilyType(4), FamilyType(6)} /\ r.data = Octets(a)

\* C19: for an address whose generated FQDN is the empty string no forward
\* record is created by the single-address sync and none is put into the
\* desired set of a full-zone sync, whether or not a forward zone was found.
C19_EmptyFqdnSkipped ==
    /\ (ipt.ip \in Addrs /\ ipt.attrs.make_fqdn_ran /\ ipt.attrs.fqdn = <<>>) =>
          \A i \in 1..Len(ipCalls) :
              ~(IsForwardCreate(ipCalls[i]) /\ IsForwardOf(ipCalls[i].rr, ipt.ip))
    /\ (fs.zone \in Zones /\ fs.pc \in {"load_pdns", "apply"}
            /\ ~IsReverse(fs.zone)) =>
          \A a \in Addrs : EmptyFqdn(a) =>
              \A r \in fs.netbox_records : ~IsForwardOf(r, a)

\* the TTL a forward record of address a placed in the zone named zname is
\* to carry: the address's override, else the zone's default_ttl
ForwardTtl(a, zname) ==
    IF GetIpTtl(ipam[a]) # 0 THEN GetIpTtl(ipam[a])
    ELSE DefaultTtl(ZoneByName(zname))

\* C20: a forward record has the address's TTL override when one is set and
\* otherwise the default_ttl of the forward zone it is placed in, in the
\* single-address sync and in the full-zone sync, and the single-address
\* sync builds it whether or not the address has a reverse zone.
C20_ForwardTtl ==
    /\ ipt.ip \in Addrs =>
          \A i \in 1..Len(ipCalls) :
              (IsForwardCreate(ipCalls[i]) /\ IsForwardOf(ipCalls[i].rr, ipt.ip)) =>
                  ipCalls[i].rr.ttl = ForwardTtl(ipt.ip, ipCalls[i].rr.zone_name)
    /\ ( /\ ipt.ip \in Addrs
         /\ ipt.failed_in = "forward"
         /\ ipt.attrs.forward_zone \in Zones
         /\ ipt.attrs.fqdn # <<>>
         /\ ipt.attrs.reverse_zone = None )
       => ipt.exc # "AttributeError"
    /\ (fs.zone \in Zones /\ fs.pc \in {"load_pdns", "apply"}) =>
          \A a \in Addrs : \A r \in fs.netbox_records :
              IsForwardOf(r, a) => r.ttl = ForwardTtl(a, r.zone_name)

\* the PTR records for address a among a set of records
PtrRecordsOf(records, a, zone) ==
    {r \in records : /\ r.type = PTR_TYPE
                     /\ r.name = RelName(MakeReverseDomain(a), ZoneName(zone))
                     /\ r.zone_name = ZoneName(zone)}

\* the step is load_netbox_records of a sync of a reverse zone that is the
\* reverse zone of address a, it put a PTR record for a into the desired set
\* and stored that record's data as the DNS name of a
WrittenByFullSync(a) ==
    /\ fs.pc = "load_netbox"
    /\ fs'.pc = "load_pdns"
    /\ IsReverse(fs.zone)
    /\ GetBestZone(MakeReverseDomain(a)) = fs.zone
    /\ a \in fs'.written
    /\ \E r \in PtrRecordsOf(fs'.netbox_records, a, fs.zone) :
          ipam'[a] = [ipam[a] EXCEPT !.dns_name = r.data]

\* the step is create_reverse of the single-address sync of a, it issued the
\* PTR record's create calls and stored that record's data as the DNS name
WrittenByUpdateIp(a) ==
    /\ ipt.pc = "reverse"
    /\ ipt.ip = a
    /\ ipt'.wrote
    /\ Len(ipCalls') > Len(ipCalls)
    /\ IsReverseCreate(ipCalls'[Len(ipCalls')])
    /\ ipam'[a] = [ipam[a] EXCEPT !.dns_name = ipCalls'[Len(ipCalls')].rr.data]

MutationCalls(calls) ==
    SelectSeq(calls, LAMBDA c : c.api \in {"create_records", "delete_records"})

\* the row that records a create_records / delete_records call
RowOfCall(c) ==
    OutputRow(IF c.api = "create_records" THEN "CREATE" ELSE "DELETE",
              c.rr, c.zone, c.server)

\* the rows that record the calls, in the calls' order
RowsOfCalls(calls) ==
    [i \in 1..Len(MutationCalls(calls)) |-> RowOfCall(MutationCalls(calls)[i])]

IsPrefix(s, t) == Len(s) <= Len(t) /\ SubSeq(t, 1, Len(s)) = s

\* C22: the job's output holds one row (action, record, zone, server) per
\* create_records / delete_records call the run issued, in the order of the
\* calls, and a step of the run only appends to it, also when the run ends
\* Errored.
C22_AuditTrail ==
    /\ [](job.output = RowsOfCalls(fsCalls))
    /\ [][runNo' = runNo => IsPrefix(job.output, job'.output)]_vars

\* a run that ended Errored and left the rows of a delete and of a create
C22_ErroredWithRows ==
    /\ fs.pc = "returned"
    /\ job.status = "errored"
    /\ \E i, k \in 1..Len(job.output) :
          /\ i < k
          /\ job.output[i].action = "DELETE"
          /\ job.output[k].action = "CREATE"

\* C23: when a full-zone sync of an enabled zone has ended Completed, every
\* enabled server that serves the zone holds, of the A, AAAA and PTR records
\* of the zone, exactly the desired set the run computed.
C23_ConvergedOnEveryServer ==
    (fs.zone \in Zones /\ fs.pc = "rearm" /\ fs.diffed
        /\ job.status = "completed") =>
        \A s \in Servers :
            (srvEnabled[s] /\ fs.zone \in srvZones[s]) =>
                {r \in srvRecs[s][fs.zone] : r.type \in CheckedTypes}
                    = fs.netbox_records

FinalStatuses == {"completed", "errored"}

\* a job j with the position pc of its run and the API calls of the run:
\* started once before any call, terminated once with a final status when
\* the run is over, and not terminated before
LifecycleOk(j, pc, calls) ==
    /\ pc = "idle" => (j.starts = 0 /\ j.terms = 0 /\ calls = <<>>)
    /\ pc \notin {"idle", "off"} => j.starts = 1
    /\ calls # <<>> => j.starts = 1
    /\ j.terms <= 1
    /\ j.terms = 1 <=> j.status \in FinalStatuses
    /\ pc \in {"rearm", "returned"} => j.terms = 1
    /\ pc \notin {"rearm", "returned"} => j.terms = 0

\* C24: in a single-address run and in a full-zone run job.start() is called
\* once and before any DNS API call, job.terminate() is called once, with
\* Completed or Errored, and after it the run issues no DNS API call and
\* the job's status does not change.
C24_JobLifecycle ==
    /\ [](LifecycleOk(job, fs.pc, fsCalls) /\ LifecycleOk(ipjob, ipt.pc, ipCalls))
    /\ [][(job.terms = 1 /\ runNo' = runNo) =>
              (fsCalls' = fsCalls /\ job'.status = job.status /\ job'.terms = 1)]_vars
    /\ [][ipjob.terms = 1 =>
              (ipCalls' = ipCalls /\ ipjob'.status = ipjob.status
                 /\ ipjob'.terms = 1)]_vars

\* both runs are over: the full-zone run ended Errored after it had issued
\* API calls and was re-armed, the single-address run ended Completed
C24_BothTerminated ==
    /\ fs.pc = "returned"
    /\ job.status = "errored"
    /\ Mutations(fsCalls) # {}
    /\ ipt.pc = "returned"
    /\ ipjob.status = "completed"
    /\ Mutations(ipCalls) # {}

\* record r of zone z is about address a: its forward record or its PTR record
IsRecordOf(r, a, z) ==
    IsForwardOf(r, a) \/ r \in PtrRecordsOf({r}, a, z)

\* the records the single-address sync created in zone z
CreatedByUpdateIp(z) ==
    {ipCalls[i].rr : i \in {k \in Mutations(ipCalls) :
                              /\ ipCalls[k].api = "create_records"
                              /\ ipCalls[k].zone = ZoneName(z)}}

\* the records about address a a full-zone sync of zone z computes as
\* desired from the inventory as it is, enumerating in the given order
DesiredFor(a, z, order) ==
    {r \in LoadNetboxRecords(z, order, ipam).records : IsRecordOf(r, a, z)}

\* C25: when a single-address sync has ended Completed, the records it
\* created in each enabled zone are the records about that address a
\* full-zone sync of that zone then computes as desired, so the full-zone
\* sync neither deletes nor re-creates them.
C25_FlowsAgree ==
    (ipt.ip \in Addrs /\ ipt.pc = "returned" /\ ipjob.status = "completed") =>
        \A z \in Zones : zoneEnabled[z] =>
            \A order \in Orders(GetAddresses(z, ipam)) :
                CreatedByUpdateIp(z) = DesiredFor(ipt.ip, z, order)

\* the records load_netbox_records adds for address a when it starts from
\* fresh attributes and the inventory inv
RecordsOfAddress(zone, a, inv) == NetboxRecordsForIp(zone, a, inv, NoAttrs).add

\* C26: load_netbox_records starts every candidate address from fresh
\* attributes: the desired set is the union, over the candidates, of the
\* records computed from that address and the zone configuration alone, and
\* it is the same set, with the same inventory left behind, for every order
\* in which the candidates are enumerated.
C26_PerAddressIsolation ==
    [][(fs.pc = "load_netbox" /\ fs'.pc = "load_pdns") =>
          /\ fs'.netbox_records =
                UNION {RecordsOfAddress(fs.zone, a, ipam) :
                          a \in GetAddresses(fs.zone, ipam)}
          /\ \A order \in Orders(GetAddresses(fs.zone, ipam)) :
                /\ LoadNetboxRecords(fs.zone, order, ipam).records
                      = fs'.netbox_records
                /\ LoadNetboxRecords(fs.zone, order, ipam).inv = ipam']_vars

\* two candidate addresses were enumerated and each got its own forward
\* record, under the name of its own host
C26_TwoAddressesLoaded ==
    /\ fs.pc = "load_pdns"
    /\ fs.zone = "zf"
    /\ \E r1, r2 \in fs.netbox_records :
          /\ IsForwardOf(r1, "a1") /\ r1.name = <<"h1">>
          /\ IsForwardOf(r2, "a2") /\ r2.name = <<"h2">>

====
